---- MODULE Spec2Model ----
(***************************************************************************)
(* cmd-map-ip-k8s: the derivation of address translations from node and    *)
(* configuration observations (main.go), the translation store and its     *)
(* writer (internal/mapipwriter), and the loops that keep the store        *)
(* current (monitorEvents, Start).                                         *)
(***************************************************************************)
EXTENDS Integers, Sequences, FiniteSets, TLC

(***************************************************************************)
(* Bounds of the model.                                                    *)
(***************************************************************************)
\* longest address array of a node in the derivation specification
MaxAddrs == 3
\* events the caller of MapIPWriter.Start sends in the writer specification
MaxSend == 3
\* persists that may fail in one run
MaxFail == 1
\* capacity of the event queue the model gives eventsCh; Start makes it with
\* 64 places (main.go), the writer's test with none: the model keeps the queue
\* bounded and small, so that a full queue is a state it reaches
ChanCap == 2
\* observations the subscriptions deliver in one run, both loops together
MaxObs == 2
\* streams the source of the observations ends in one run, both loops together
MaxCloses == 1
\* events the caller of MapIPWriter.Start sends in the kind specification
MaxKindSend == 2

(***************************************************************************)
(* Data: addresses, nodes, observations, translations, events.             *)
(***************************************************************************)
IPs == {"ip1", "ip2", "ip3"}

NodeInternalIP == "InternalIP"
NodeExternalIP == "ExternalIP"
NodeHostName == "Hostname"
AddressTypes == {NodeInternalIP, NodeExternalIP, NodeHostName}

Added == "ADDED"
Modified == "MODIFIED"
Deleted == "DELETED"
EventTypes == {Added, Modified, Deleted}

NodeNames == {"node-1", "node-2"}

NodeAddress(type, address) == [Type |-> type, Address |-> address]

NodeAddresses == [Type : AddressTypes, Address : IPs]

Node(name, addresses) == [Name |-> name, Addresses |-> addresses]

WatchEvent(type, object) == [Type |-> type, Object |-> object]

Translation(from, to) == [From |-> from, To |-> to]

Event(type, from, to) == [Type |-> type, From |-> from, To |-> to]

TranslationOf(event) == Translation(event.From, event.To)

\* every address array of at most n addresses
AddressArrays(n) == UNION {[1..k -> NodeAddresses] : k \in 0..n}

(***************************************************************************)
(* translationFromNode (main.go).                                          *)
(***************************************************************************)
\* the first loop with the change kind lost: every event is Added
RECURSIVE InternalLoopAdded(_, _, _, _)
InternalLoopAdded(type, addresses, i, result) ==
    IF i > Len(addresses) THEN result
    ELSE IF addresses[i].Type = NodeInternalIP
         THEN LET a == addresses[i].Address
                  appended == Append(result, Event(Added, a, a))
              IN  InternalLoopAdded(type, addresses, i + 1, [appended EXCEPT ![1].To = a])
         ELSE InternalLoopAdded(type, addresses, i + 1, result)

\* first loop: one event I -> I per internal address; after each append the
\* To of the FIRST event of the result is set to the address just seen
RECURSIVE InternalLoop(_, _, _, _)
InternalLoop(type, addresses, i, result) ==
    IF i > Len(addresses) THEN result
    ELSE IF addresses[i].Type = NodeInternalIP
         THEN LET a == addresses[i].Address
                  appended == Append(result, Event(type, a, a))
              IN  InternalLoop(type, addresses, i + 1, [appended EXCEPT ![1].To = a])
         ELSE InternalLoop(type, addresses, i + 1, result)

ExternalIndexes(addresses) ==
    {i \in 1..Len(addresses) : addresses[i].Type = NodeExternalIP}

MinOf(S) == CHOOSE x \in S : \A y \in S : x <= y

MaxOf(S) == CHOOSE x \in S : \A y \in S : x >= y

\* the second loop without its break: the last external address wins
OverrideLoopLast(addresses, result) ==
    IF ExternalIndexes(addresses) = {} THEN result
    ELSE LET e == addresses[MaxOf(ExternalIndexes(addresses))].Address
         IN  [j \in 1..Len(result) |-> [result[j] EXCEPT !.To = e]]

\* second loop: at the first external address every event gets it as To; break
OverrideLoop(addresses, result) ==
    IF ExternalIndexes(addresses) = {} THEN result
    ELSE LET e == addresses[MinOf(ExternalIndexes(addresses))].Address
         IN  [j \in 1..Len(result) |-> [result[j] EXCEPT !.To = e]]

\* the third loop appending the reverse direction E -> I of the first event
RECURSIVE ExternalLoopReverse(_, _, _, _)
ExternalLoopReverse(type, addresses, i, result) ==
    IF i > Len(addresses) THEN result
    ELSE IF addresses[i].Type = NodeExternalIP /\ result # <<>>
         THEN ExternalLoopReverse(type, addresses, i + 1,
                       Append(result, Event(type, result[1].To, result[1].From)))
         ELSE ExternalLoopReverse(type, addresses, i + 1, result)

\* third loop: one event E -> E per external address
RECURSIVE ExternalLoop(_, _, _, _)
ExternalLoop(type, addresses, i, result) ==
    IF i > Len(addresses) THEN result
    ELSE IF addresses[i].Type = NodeExternalIP
         THEN LET a == addresses[i].Address
              IN  ExternalLoop(type, addresses, i + 1, Append(result, Event(type, a, a)))
         ELSE ExternalLoop(type, addresses, i + 1, result)

translationFromNode(e) ==
    LET addresses == e.Object.Addresses
        internal == InternalLoop(e.Type, addresses, 1, <<>>)
        overridden == OverrideLoop(addresses, internal)
    IN  ExternalLoop(e.Type, addresses, 1, overridden)

(***************************************************************************)
(* The store: MapIPWriter (internal/mapipwriter).                           *)
(***************************************************************************)
\* the switch of Start's task with the Deleted case missing
ApplyEventInsertOnly(set, event) == set \cup {TranslationOf(event)}

\* the switch of Start's task with a case for Added and no default: an event
\* of any other kind but Deleted changes nothing
ApplyEventAddedOnly(set, event) ==
    IF event.Type = Deleted THEN set \ {TranslationOf(event)}
    ELSE IF event.Type = Added THEN set \cup {TranslationOf(event)}
    ELSE set

\* the switch of Start's task over a table keyed by From: Deleted removes
\* every Translation with the event's From
ApplyEventByFrom(set, event) ==
    IF event.Type = Deleted
    THEN {t \in set : t.From # event.From}
    ELSE set \cup {TranslationOf(event)}

\* the switch of Start's task: Deleted removes the Translation, every other
\* kind inserts it
ApplyEvent(set, event) ==
    IF event.Type = Deleted
    THEN set \ {TranslationOf(event)}
    ELSE set \cup {TranslationOf(event)}

FromsOf(set) == {t.From : t \in set}

\* writeToFile's outmap with an entry forgotten when the set has several
OutmapsLossy(set) ==
    {m \in SUBSET set :
        /\ \A t \in m, u \in m : t.From = u.From => t = u
        /\ Cardinality(m) = IF set = {} THEN 0 ELSE 1}

\* writeToFile's outmap: outmap[From] = To for every member, in the map's
\* iteration order, which Go leaves unspecified: every table with one entry
\* per From of the set, its To taken from some member with that From
Outmaps(set) ==
    {m \in SUBSET set :
        /\ FromsOf(m) = FromsOf(set)
        /\ \A t \in m, u \in m : t.From = u.From => t = u}

\* an event in the queue, with what the history needs of it: its producer, the
\* number of the producer's observation it was derived from, its place among
\* the events of that observation, and its place among all events sent
Msg(event, src, obs, idx, seq) ==
    [event |-> event, src |-> src, obs |-> obs, idx |-> idx, seq |-> seq]

NoMsg == Msg(Event("", "", ""), "", 0, 0, 0)

MutateTask(msg) == [op |-> "mutate", msg |-> msg]

WriteTask == [op |-> "write", msg |-> NoMsg]

\* the application of an event as the store's contract states it: a Deleted
\* event removes its Translation, every other event inserts it
RefApply(set, event) ==
    IF event.Type = Deleted
    THEN {t \in set : ~(t.From = event.From /\ t.To = event.To)}
    ELSE set \cup {[From |-> event.From, To |-> event.To]}

(***************************************************************************)
(* State.                                                                  *)
(***************************************************************************)
VARIABLES
    dPc,        \* derivation specification: "input" or "done" ("off" elsewhere)
    dIn,        \* derivation specification: the observation
    dOut,       \* derivation specification: the events derived from dIn
    cancelled,  \* ctx is done
    eventsCh,   \* the event queue: events sent and not yet received
    closed,     \* the event queue has been closed by the caller of MapIPWriter.Start
    writerPc,   \* MapIPWriter.Start: "idle" (not started), "run", "done" (returned)
    closedSeen, \* MapIPWriter.Start has received from the closed queue (ok = false)
    execQ,      \* m.exec: the tasks scheduled and not yet run, in order
    internalToExternalIP,   \* the Translation Set
    file,       \* the table in the output file
    fileExists, \* the output file exists
    lastWriteOk,\* the last writeToFile wrote the file (history)
    nFail,      \* writes that failed (history, bounded by MaxFail)
    expected,   \* the events MapIPWriter.Start received so far, applied in the
                \* order of their receipt to the empty set (history)
    applied,    \* the events whose mutation has run so far, applied in the order
                \* of their running to the empty set (history)
    nEnq,       \* events placed in the queue so far (history)
    nApplied,   \* events whose mutation has run so far (history)
    conf,       \* the configuration: FromConfigMap, NodeName
    publicIP,   \* what getPublicIP returns ("" when discovery fails)
    cluster,    \* the nodes the node subscription may deliver observations of
    list,       \* the nodes listed at startup
    startPc,    \* Start: "seed" (feeding the queue), "started" (goroutines started)
    seedQ,      \* Start: the events of the startup snapshot not yet sent
    monPc,      \* monitorEvents, per loop: "idle", "init", "head", "select",
                \* "forward", "done"
    w,          \* monitorEvents, per loop: the subscription held (0: nil)
    gen,        \* per loop: subscriptions obtained so far
    streamOpen, \* per loop: the stream of the subscription held is open
    nCloses,    \* streams ended by their source so far (history)
    released,   \* per loop: the subscriptions stopped so far
    pending,    \* monitorEvents, per loop: the derived events not yet forwarded
    nObs,       \* per loop: observations received so far (history)
    lastObs,    \* per loop: the observation received last, and the subscription
                \* it was received on (history)
    obsLog      \* per loop: the kinds of the observations received, in order
                \* (history)

dvars == <<dPc, dIn, dOut>>

storevars == <<execQ, internalToExternalIP, file, fileExists, lastWriteOk, nFail>>

histvars == <<expected, applied, nEnq, nApplied>>

sysvars == <<conf, publicIP, cluster, list, startPc, seedQ>>

monvars == <<monPc, w, gen, streamOpen, nCloses, released, pending, nObs, lastObs, obsLog>>

vars == <<dPc, dIn, dOut, cancelled, eventsCh, closed, writerPc, closedSeen, execQ,
          internalToExternalIP, file, fileExists, lastWriteOk, nFail, expected, applied,
          nEnq, nApplied, conf, publicIP, cluster, list, startPc, seedQ, monPc, w, gen,
          streamOpen, nCloses, released, pending, nObs, lastObs, obsLog>>

Loops == {"node", "cm"}

NoObservation == WatchEvent(Added, Node("", <<>>))

DeriveOff == dPc = "off" /\ dIn = NoObservation /\ dOut = <<>>

\* no loop has been started
MonOff ==
    /\ monPc = [l \in Loops |-> "idle"]
    /\ w = [l \in Loops |-> 0]
    /\ gen = [l \in Loops |-> 0]
    /\ streamOpen = [l \in Loops |-> FALSE]
    /\ nCloses = 0
    /\ released = [l \in Loops |-> {}]
    /\ pending = [l \in Loops |-> <<>>]
    /\ nObs = [l \in Loops |-> 0]
    /\ lastObs = [l \in Loops |-> [e |-> NoObservation, sub |-> 0]]
    /\ obsLog = [l \in Loops |-> <<>>]

\* Start is not part of the run
SysOff ==
    /\ conf = [FromConfigMap |-> "", NodeName |-> ""]
    /\ publicIP = ""
    /\ cluster = {}
    /\ list = <<>>
    /\ startPc = "off"
    /\ seedQ = <<>>

StoreInit ==
    /\ cancelled = FALSE
    /\ eventsCh = <<>>
    /\ closed = FALSE
    /\ closedSeen = FALSE
    /\ execQ = <<>>
    /\ internalToExternalIP = {}
    /\ file = {}
    /\ fileExists = FALSE
    /\ lastWriteOk = FALSE
    /\ nFail = 0
    /\ expected = {}
    /\ applied = {}
    /\ nEnq = 0
    /\ nApplied = 0

(***************************************************************************)
(* The derivation specification: one observation drawn from the bounded    *)
(* set, one application of the derivation.                                 *)
(***************************************************************************)
NodeObservations ==
    {WatchEvent(t, Node(n, a)) : t \in EventTypes, n \in NodeNames, a \in AddressArrays(MaxAddrs)}

DeriveInit ==
    /\ dPc = "input"
    /\ dIn \in NodeObservations
    /\ dOut = <<>>
    /\ StoreInit
    /\ writerPc = "idle"
    /\ SysOff
    /\ MonOff

DeriveNode ==
    /\ dPc = "input"
    /\ dOut' = translationFromNode(dIn)
    /\ dPc' = "done"
    /\ UNCHANGED <<dIn, sysvars, monvars, cancelled, eventsCh, closed, writerPc, closedSeen, storevars,
                   histvars>>

DeriveNext == DeriveNode

DeriveSpec == DeriveInit /\ [][DeriveNext]_vars

(***************************************************************************)
(* Properties of translationFromNode, stated on the derivation             *)
(* specification.                                                          *)
(***************************************************************************)
IsInternal(a) == a.Type = NodeInternalIP

IsExternal(a) == a.Type = NodeExternalIP

InternalsOf(e) == SelectSeq(e.Object.Addresses, IsInternal)

ExternalsOf(e) == SelectSeq(e.Object.Addresses, IsExternal)

Yields(out, from, to) == \E j \in 1..Len(out) : out[j].From = from /\ out[j].To = to

C8_LastExternalWins ==
    (dPc = "done" /\ Len(ExternalsOf(dIn)) >= 2) =>
        \A j \in 1..Len(InternalsOf(dIn)) :
            /\ dOut[j].From = InternalsOf(dIn)[j].Address
            /\ dOut[j].To = ExternalsOf(dIn)[Len(ExternalsOf(dIn))].Address

\* C8 as amended: with several external addresses, the To of every
\* internal-address event is the FIRST external address of the array.
C8_FirstExternalWins ==
    (dPc = "done" /\ Len(ExternalsOf(dIn)) >= 2) =>
        /\ Len(dOut) >= Len(InternalsOf(dIn))
        /\ \A j \in 1..Len(InternalsOf(dIn)) :
              /\ dOut[j].From = InternalsOf(dIn)[j].Address
              /\ dOut[j].To = ExternalsOf(dIn)[1].Address

\* C8 happens: an internal address followed by two different external ones.
C8_Witness ==
    /\ dPc = "done"
    /\ dIn.Object.Addresses =
          <<NodeAddress(NodeInternalIP, "ip1"), NodeAddress(NodeExternalIP, "ip2"),
            NodeAddress(NodeExternalIP, "ip3")>>
    /\ dOut[1].To = "ip2"

\* C10: a node observation with exactly one internal address I and no external
\* address yields exactly one event, I -> I, with the observation's change kind.
C10_InternalOnly ==
    (dPc = "done" /\ Len(InternalsOf(dIn)) = 1 /\ Len(ExternalsOf(dIn)) = 0) =>
        dOut = <<Event(dIn.Type, InternalsOf(dIn)[1].Address, InternalsOf(dIn)[1].Address)>>

\* C10 happens: a Deleted observation of a node with one internal address and
\* a host name has been derived.
C10_Witness ==
    /\ dPc = "done"
    /\ dIn.Type = Deleted
    /\ dIn.Object.Addresses =
          <<NodeAddress(NodeHostName, "ip2"), NodeAddress(NodeInternalIP, "ip1")>>
    /\ Len(dOut) = 1

(***************************************************************************)
(* MapIPWriter.Start and the tasks it schedules on m.exec.  The executor   *)
(* runs the scheduled tasks one at a time, in the order of their           *)
(* scheduling; AsyncExec only appends to its queue.                        *)
(***************************************************************************)
\* case <-ctx.Done(): return
WriterReturn ==
    /\ writerPc = "run"
    /\ cancelled
    /\ writerPc' = "done"
    /\ UNCHANGED <<dvars, sysvars, monvars, cancelled, eventsCh, closed, closedSeen, storevars, histvars>>

\* m.exec.AsyncExec(task) with the queue taken from its wrong end
AsyncExecFront(queue, task) == <<task>> \o queue

\* m.exec.AsyncExec(task)
AsyncExec(queue, task) == Append(queue, task)

\* the Translation Set after Start's own goroutine has received an event,
\* were that goroutine to apply the event itself
OnReceiveApplied(set, event) == ApplyEvent(set, event)

\* the Translation Set after Start's own goroutine has received an event: the
\* goroutine only schedules the task, the set is touched inside the task
OnReceive(set, event) == set

\* case event, ok := <-eventCh with ok: the task of the event is scheduled
WriterRecv ==
    /\ writerPc = "run"
    /\ eventsCh # <<>>
    /\ eventsCh' = Tail(eventsCh)
    /\ execQ' = AsyncExec(execQ, MutateTask(Head(eventsCh)))
    /\ expected' = RefApply(expected, Head(eventsCh).event)
    /\ internalToExternalIP' = OnReceive(internalToExternalIP, Head(eventsCh).event)
    /\ UNCHANGED <<dvars, sysvars, monvars, cancelled, closed, writerPc, closedSeen,
                   file, fileExists, lastWriteOk, nFail, applied, nEnq, nApplied>>

\* case event, ok := <-eventCh with !ok (the queue is closed and drained):
\* continue, the loop selects again
WriterRecvClosed ==
    /\ writerPc = "run"
    /\ eventsCh = <<>>
    /\ closed
    /\ closedSeen' = TRUE
    /\ UNCHANGED <<dvars, sysvars, monvars, cancelled, eventsCh, closed, writerPc, storevars, histvars>>

\* the outer task: the switch on the event's kind, then the persist is scheduled
ExecMutate ==
    /\ execQ # <<>>
    /\ Head(execQ).op = "mutate"
    /\ internalToExternalIP' = ApplyEvent(internalToExternalIP, Head(execQ).msg.event)
    /\ execQ' = AsyncExec(Tail(execQ), WriteTask)
    /\ nApplied' = nApplied + 1
    /\ applied' = RefApply(applied, Head(execQ).msg.event)
    /\ UNCHANGED <<dvars, sysvars, monvars, cancelled, eventsCh, closed, writerPc,
                   closedSeen, file, fileExists, lastWriteOk, nFail, expected, nEnq>>

\* the inner task, writeToFile, when os.WriteFile succeeds
ExecWrite ==
    /\ execQ # <<>>
    /\ Head(execQ).op = "write"
    /\ file' \in Outmaps(internalToExternalIP)
    /\ fileExists' = TRUE
    /\ lastWriteOk' = TRUE
    /\ execQ' = Tail(execQ)
    /\ UNCHANGED <<dvars, sysvars, monvars, cancelled, eventsCh, closed, writerPc, closedSeen,
                   internalToExternalIP, nFail, histvars>>

\* the Translation Set after a persist error, were the error to reset it
AfterPersistErrorReset(set) == {}

\* the Translation Set after a persist error: the error is logged, nothing else
AfterPersistError(set) == set

\* writeToFile when os.WriteFile fails: the error is logged; the file is as
\* it was (it could not be opened) or truncated (it was opened, not written)
ExecWriteFail ==
    /\ execQ # <<>>
    /\ Head(execQ).op = "write"
    /\ nFail < MaxFail
    /\ nFail' = nFail + 1
    /\ \/ UNCHANGED <<file, fileExists>>
       \/ file' = {} /\ fileExists' = TRUE
    /\ lastWriteOk' = FALSE
    /\ execQ' = Tail(execQ)
    /\ internalToExternalIP' = AfterPersistError(internalToExternalIP)
    /\ UNCHANGED <<dvars, sysvars, monvars, cancelled, eventsCh, closed, writerPc, closedSeen,
                   histvars>>

ExecStep == ExecMutate \/ ExecWrite \/ ExecWriteFail

\* the process-level shutdown signal
Cancel ==
    /\ ~cancelled
    /\ cancelled' = TRUE
    /\ UNCHANGED <<dvars, sysvars, monvars, eventsCh, closed, writerPc, closedSeen, storevars, histvars>>

(***************************************************************************)
(* The writer specification: MapIPWriter.Start alone, with a caller that   *)
(* sends events on the queue, may close it and may cancel                  *)
(* (Test_MapWriter).                                                       *)
(***************************************************************************)
WriterIPs == {"ip1", "ip2"}

WriterEvents == {Event(t, f, to) : t \in EventTypes, f \in WriterIPs, to \in WriterIPs}

\* eventCh <- event
CallerSend ==
    /\ ~closed
    /\ nEnq < MaxSend
    /\ Len(eventsCh) < ChanCap
    /\ \E event \in WriterEvents :
          eventsCh' = Append(eventsCh, Msg(event, "caller", 0, nEnq + 1, nEnq + 1))
    /\ nEnq' = nEnq + 1
    /\ UNCHANGED <<dvars, sysvars, monvars, cancelled, closed, writerPc, closedSeen, storevars, expected,
                   applied, nApplied>>

\* close(eventCh)
CallerClose ==
    /\ ~closed
    /\ closed' = TRUE
    /\ UNCHANGED <<dvars, sysvars, monvars, cancelled, eventsCh, writerPc, closedSeen, storevars, histvars>>

WriterInit ==
    /\ DeriveOff
    /\ StoreInit
    /\ writerPc = "run"
    /\ SysOff
    /\ MonOff

WriterNext ==
    \/ CallerSend
    \/ CallerClose
    \/ Cancel
    \/ WriterRecv
    \/ WriterRecvClosed
    \/ WriterReturn
    \/ ExecMutate
    \/ ExecWrite
    \/ ExecWriteFail

WriterSpec == WriterInit /\ [][WriterNext]_vars

\* the executor's goroutine runs as long as a task is scheduled
FairWriterSpec == WriterSpec /\ WF_vars(ExecStep)

(***************************************************************************)
(* Properties of MapIPWriter.Start, stated on the writer specification.    *)
(***************************************************************************)
\* C1: the executor runs every task it was given, so that from some point on
\* no task is left; and whenever no task is left and the last write of the
\* file succeeded, the file is a From -> To table of the set obtained by
\* applying the events Start received, in the order of their receipt, to the
\* empty set.
C1_FileFollowsEvents ==
    /\ <>[](execQ = <<>>)
    /\ []((execQ = <<>> /\ lastWriteOk) => (fileExists /\ file \in Outmaps(expected)))

\* C1 happens: three events were received, the last one a Deleted of a
\* Translation added before; nothing is left to run and the file holds the
\* one entry that remains.
C1_Witness ==
    /\ execQ = <<>>
    /\ lastWriteOk
    /\ nApplied = 3
    /\ expected = {Translation("ip1", "ip2")}
    /\ file = {Translation("ip1", "ip2")}

\* C6 as claimed: once Start has received from the closed queue, it has
\* returned.
C6_ReturnsOnClose == closedSeen => writerPc = "done"

\* C19 as claimed: the persist an event triggers runs right after the event's
\* mutation, before any other task, so that a persist that is scheduled is
\* always the executor's next task.
C19_PersistFollowsMutation ==
    \A i \in 1..Len(execQ) : execQ[i].op = "write" => i = 1

\* C16: a persist that fails leaves the Translation Set and the routine of
\* Start as they are and ends its task, so that the set always holds every
\* mutation run so far; every mutation schedules a persist behind it; after a
\* failure the executor still runs every task it is given; the first persist
\* that succeeds after a failure writes a table of the whole set, and whenever
\* nothing is left to run after it the file is a table of the whole set.
C16_PersistFailureHeals ==
    /\ [](internalToExternalIP = applied)
    /\ [][nFail' > nFail =>
              (/\ internalToExternalIP' = internalToExternalIP
               /\ writerPc' = writerPc
               /\ execQ' = Tail(execQ))]_vars
    /\ [][nApplied' > nApplied => (execQ' # <<>> /\ execQ'[Len(execQ')] = WriteTask)]_vars
    /\ [][(nFail >= 1 /\ ~lastWriteOk /\ lastWriteOk') =>
              (fileExists' /\ file' \subseteq applied /\ FromsOf(file') = FromsOf(applied))]_vars
    /\ [](nFail >= 1 => <>(execQ = <<>>))
    /\ []((nFail >= 1 /\ execQ = <<>> /\ lastWriteOk) =>
              (file \subseteq applied /\ FromsOf(file) = FromsOf(applied)))

\* C16 happens: two events were applied, the persist of the first failed, the
\* persist of the second succeeded and wrote both entries.
C16_Witness ==
    /\ nApplied = 2
    /\ execQ = <<>>
    /\ nFail = 1
    /\ lastWriteOk
    /\ file = {Translation("ip1", "ip2"), Translation("ip2", "ip1")}

(***************************************************************************)
(* translateFromConfigmap and translationFromPodToNode (main.go).          *)
(***************************************************************************)
\* one item of ConfigMap.Data: its text is malformed, or parses as a table
DataItem(key, malformed, table) == [key |-> key, malformed |-> malformed, table |-> table]

ConfigMap(name, data) == [Name |-> name, Data |-> data]

\* every sequence that enumerates the set S once: the orders in which a range
\* over a Go map may visit it
Orders(S) ==
    {f \in [1..Cardinality(S) -> S] : \A x \in S : \E i \in 1..Cardinality(S) : f[i] = x}

\* the inner loop, left after the first entry
ItemEventsFirst(type, item) ==
    IF item.malformed \/ item.table = {} THEN {<<>>}
    ELSE {<<Event(type, t.From, t.To)>> : t \in item.table}

\* the inner loop: one event key -> value per entry of the parsed table, none
\* when yaml.Unmarshal fails
ItemEvents(type, item) ==
    IF item.malformed THEN {<<>>}
    ELSE {[i \in 1..Len(o) |-> Event(type, o[i].From, o[i].To)] : o \in Orders(item.table)}

\* the outer loop, left at the first item whose text is malformed
RECURSIVE DataEventsStop(_, _, _)
DataEventsStop(type, items, i) ==
    IF i > Len(items) \/ items[i].malformed THEN {<<>>}
    ELSE {a \o b : a \in ItemEvents(type, items[i]), b \in DataEventsStop(type, items, i + 1)}

RECURSIVE DataEvents(_, _, _)
DataEvents(type, items, i) ==
    IF i > Len(items) THEN {<<>>}
    ELSE {a \o b : a \in ItemEvents(type, items[i]), b \in DataEvents(type, items, i + 1)}

\* the results translateFromConfigmap may give: one per iteration order
translateFromConfigmap(e) ==
    UNION {DataEvents(e.Type, items, 1) : items \in Orders(e.Object.Data)}

\* the loop over the addresses, keeping the first address of the type
RECURSIVE FirstAddressOf(_, _, _, _)
FirstAddressOf(addresses, type, i, to) ==
    IF i > Len(addresses) THEN to
    ELSE IF addresses[i].Type = type THEN addresses[i].Address
    ELSE FirstAddressOf(addresses, type, i + 1, to)

RECURSIVE LastAddressOf(_, _, _, _)
LastAddressOf(addresses, type, i, to) ==
    IF i > Len(addresses) THEN to
    ELSE LastAddressOf(addresses, type, i + 1,
                       IF addresses[i].Type = type THEN addresses[i].Address ELSE to)

\* nil (no event) or the event from the process's own address to the node's
\* last external address, its last internal address when it has no external
translationFromPodToNode(ip, e, currentNodeName) ==
    IF e.Object.Name # currentNodeName \/ e.Type = Deleted THEN <<>>
    ELSE LET internal == LastAddressOf(e.Object.Addresses, NodeInternalIP, 1, "")
             to == LastAddressOf(e.Object.Addresses, NodeExternalIP, 1, internal)
         IN  <<Event(Added, ip, to)>>

\* the translateFn Start gives the node loop
NodeTranslateFn(ip, e, currentNodeName) ==
    translationFromNode(e) \o translationFromPodToNode(ip, e, currentNodeName)

(***************************************************************************)
(* The translation specification: one node observation, the process's own  *)
(* address and the configured node name drawn from the bounded sets; the   *)
(* observation is derived once, as Start derives a listed node or as the   *)
(* node loop's translateFn derives a delivered observation.                *)
(***************************************************************************)
\* what getPublicIP may return: "" when the discovery fails
PublicIPs == {"", "ip3"}

TranslateConfs == {[FromConfigMap |-> "", NodeName |-> n] : n \in {""} \cup NodeNames}

TranslateInit ==
    /\ dPc = "input"
    /\ dIn \in NodeObservations
    /\ dOut = <<>>
    /\ StoreInit
    /\ writerPc = "idle"
    /\ MonOff
    /\ conf \in TranslateConfs
    /\ publicIP \in PublicIPs
    /\ cluster = {}
    /\ list = <<>>
    /\ startPc = "off"
    /\ seedQ = <<>>

\* Start, for a listed node: translationFromNode of an Added observation of it
TranslateListed ==
    /\ dPc = "input"
    /\ dOut' = translationFromNode(WatchEvent(Added, dIn.Object))
    /\ dPc' = "listed"
    /\ UNCHANGED <<dIn, sysvars, monvars, cancelled, eventsCh, closed, writerPc,
                   closedSeen, storevars, histvars>>

\* the node loop, for a delivered observation: its translateFn
TranslateWatched ==
    /\ dPc = "input"
    /\ dOut' = NodeTranslateFn(publicIP, dIn, conf.NodeName)
    /\ dPc' = "watched"
    /\ UNCHANGED <<dIn, sysvars, monvars, cancelled, eventsCh, closed, writerPc,
                   closedSeen, storevars, histvars>>

TranslateNext == TranslateListed \/ TranslateWatched

TranslateSpec == TranslateInit /\ [][TranslateNext]_vars

\* C11 as claimed: an observation of a node with no internal and no external
\* address yields no event, whatever its kind and its node, for a listed node
\* and for a delivered observation.
C11_NoAddressNoEvent ==
    (dPc \in {"listed", "watched"} /\ Len(InternalsOf(dIn)) = 0 /\ Len(ExternalsOf(dIn)) = 0)
        => dOut = <<>>

\* the event translationFromPodToNode adds for an observation of the node
\* the process runs on
IsPodEvent(ev, to) == ev = Event(Added, publicIP, to)

\* C17: the translateFn of the node loop gives the events of
\* translationFromNode, followed, if and only if the node's name is the
\* configured one and the kind is not Deleted, by one Added event from the
\* process's own address ("" when its discovery failed) to the node's
\* (last) external address, to its (last) internal address when it has no
\* external one; and the store's switch inserts that event's Translation,
\* which the file shows under the key From, the empty key included.
C17_PodEvent ==
    dPc = "watched" =>
        LET base == translationFromNode(dIn)
            ext == ExternalsOf(dIn)
            int == InternalsOf(dIn)
            own == dIn.Object.Name = conf.NodeName /\ dIn.Type # Deleted
        IN  /\ ~own => dOut = base
            /\ own =>
                  /\ Len(dOut) = Len(base) + 1
                  /\ SubSeq(dOut, 1, Len(base)) = base
                  /\ dOut[Len(dOut)].Type = Added
                  /\ dOut[Len(dOut)].From = publicIP
                  /\ Len(ext) > 0 => IsPodEvent(dOut[Len(dOut)], ext[Len(ext)].Address)
                  /\ (Len(ext) = 0 /\ Len(int) > 0) =>
                        IsPodEvent(dOut[Len(dOut)], int[Len(int)].Address)
                  /\ ApplyEvent({}, dOut[Len(dOut)]) =
                        {Translation(publicIP, dOut[Len(dOut)].To)}
                  /\ Outmaps(ApplyEvent({}, dOut[Len(dOut)])) =
                        {{Translation(publicIP, dOut[Len(dOut)].To)}}

\* C17 happens: the discovery failed, and a Modified observation of the
\* process's node with an internal and two external addresses was derived.
C17_Witness ==
    /\ dPc = "watched"
    /\ publicIP = ""
    /\ conf.NodeName = "node-1"
    /\ dIn = WatchEvent(Modified, Node("node-1", <<NodeAddress(NodeExternalIP, "ip2"),
                                                    NodeAddress(NodeInternalIP, "ip1"),
                                                    NodeAddress(NodeExternalIP, "ip3")>>))
    /\ dOut[Len(dOut)] = Event(Added, "", "ip3")

(***************************************************************************)
(* Start (main.go): the startup snapshot is fed to the queue, then the     *)
(* writer and the loops are started.                                       *)
(***************************************************************************)
\* the derived events of one object, with their places (see Msg)
Tagged(events, src, obs) ==
    [i \in 1..Len(events) |-> [event |-> events[i], src |-> src, obs |-> obs, idx |-> i]]

RECURSIVE SeedOfNodes(_, _)
SeedOfNodes(nodes, i) ==
    IF i > Len(nodes) THEN <<>>
    ELSE Tagged(translationFromNode(WatchEvent(Added, nodes[i])), "seed", i)
             \o SeedOfNodes(nodes, i + 1)

SysExternal == NodeAddress(NodeExternalIP, "ip1")

SysInternal == NodeAddress(NodeInternalIP, "ip2")

\* the address arrays of the nodes of the system runs
SysArrays == {<<SysExternal, SysInternal>>}

SysNodes == {Node("node-1", a) : a \in SysArrays}

\* the configuration record of the system runs (main_test.go)
CmTest ==
    ConfigMap("test", {DataItem("config.yaml", FALSE,
                                {Translation("ip1", "ip2"), Translation("ip2", "ip1")})})

\* what the subscriptions may deliver
SysObservations(l) ==
    IF l = "node" THEN {WatchEvent(t, n) : t \in {Added, Deleted}, n \in cluster}
    ELSE {WatchEvent(Added, CmTest)}

\* the startup snapshots: the node list, and whether the record is found
SysLists == {<<>>, <<Node("node-2", <<SysInternal>>)>>}

SysConfs == {[FromConfigMap |-> f, NodeName |-> n] : f \in {"", "test"}, n \in {""}}

\* chan <- event, with the history's count of the events sent
Enqueue(queue, p, seq) == Append(queue, Msg(p.event, p.src, p.obs, p.idx, seq))

SysInit ==
    /\ DeriveOff
    /\ StoreInit
    /\ writerPc = "idle"
    /\ MonOff
    /\ conf \in SysConfs
    /\ publicIP \in {"ip3"}
    /\ cluster = SysNodes
    /\ list \in SysLists
    /\ startPc = "seed"
    /\ \E found \in BOOLEAN, cmEvents \in translateFromConfigmap(WatchEvent(Added, CmTest)) :
          seedQ = (IF conf.FromConfigMap # "" /\ found
                   THEN Tagged(cmEvents, "seed", 0) ELSE <<>>) \o SeedOfNodes(list, 1)

\* eventsCh <- event, in the two loops of Start over the snapshot
StartSeed ==
    /\ startPc = "seed"
    /\ seedQ # <<>>
    /\ Len(eventsCh) < ChanCap
    /\ eventsCh' = Enqueue(eventsCh, Head(seedQ), nEnq + 1)
    /\ nEnq' = nEnq + 1
    /\ seedQ' = Tail(seedQ)
    /\ UNCHANGED <<dvars, monvars, cancelled, closed, writerPc, closedSeen, storevars,
                   expected, applied, nApplied, conf, publicIP, cluster, list, startPc>>

\* the go statements reached with events of the snapshot still to be sent
SeedingDoneEarly(queue) == TRUE

\* the two loops over the snapshot have ended: every one of its events is sent
SeedingDone(queue) == queue = <<>>

\* go mapWriter.Start; go monitorEvents for the nodes; with a configuration
\* source, go monitorEvents for it
StartGo ==
    /\ startPc = "seed"
    /\ SeedingDone(seedQ)
    /\ startPc' = "started"
    /\ writerPc' = "run"
    /\ monPc' = [l \in Loops |->
                    IF l = "node" \/ conf.FromConfigMap # "" THEN "init" ELSE "idle"]
    /\ UNCHANGED <<dvars, cancelled, eventsCh, closed, closedSeen, storevars, histvars,
                   conf, publicIP, cluster, list, seedQ, w, gen, streamOpen, nCloses, released,
                   pending, nObs, lastObs, obsLog>>

(***************************************************************************)
(* monitorEvents (main.go), one instance per loop l.                       *)
(***************************************************************************)
\* what getWatchFn may return: nil, or a new subscription
GetWatch(l) == {0, gen[l] + 1}

\* w (re)assigned from getWatchFn
Obtain(l, new) ==
    /\ w' = [w EXCEPT ![l] = new]
    /\ gen' = [gen EXCEPT ![l] = IF new = 0 THEN @ ELSE new]
    /\ streamOpen' = [streamOpen EXCEPT ![l] = new # 0]

\* w.Stop(), skipped
StopNot(l) == UNCHANGED released

\* w.Stop()
Stop(l) == released' = [released EXCEPT ![l] = IF w[l] = 0 THEN @ ELSE @ \cup {w[l]}]

\* w := getWatchFn()
MonInit(l) ==
    /\ monPc[l] = "init"
    /\ \E new \in GetWatch(l) : Obtain(l, new)
    /\ monPc' = [monPc EXCEPT ![l] = "head"]
    /\ UNCHANGED <<dvars, sysvars, cancelled, eventsCh, closed, writerPc, closedSeen,
                   storevars, histvars, nCloses, released, pending, nObs, lastObs, obsLog>>

\* for ctx.Err() == nil fails: the loop ends and the deferred function stops w
MonExit(l) ==
    /\ monPc[l] = "head"
    /\ cancelled
    /\ Stop(l)
    /\ monPc' = [monPc EXCEPT ![l] = "done"]
    /\ UNCHANGED <<dvars, sysvars, cancelled, eventsCh, closed, writerPc, closedSeen,
                   storevars, histvars, w, gen, streamOpen, nCloses, pending, nObs, lastObs, obsLog>>

\* if w == nil, with the loop given up instead of retrying
MonRetryGiveUp(l) ==
    /\ monPc[l] = "head"
    /\ ~cancelled
    /\ w[l] = 0
    /\ monPc' = [monPc EXCEPT ![l] = "done"]
    /\ UNCHANGED <<dvars, sysvars, cancelled, eventsCh, closed, writerPc, closedSeen,
                   storevars, histvars, w, gen, streamOpen, nCloses, released, pending,
                   nObs, lastObs, obsLog>>

\* if w == nil: log, sleep, w = getWatchFn(), continue
MonRetry(l) ==
    /\ monPc[l] = "head"
    /\ ~cancelled
    /\ w[l] = 0
    /\ \E new \in GetWatch(l) : Obtain(l, new)
    /\ UNCHANGED <<dvars, sysvars, cancelled, eventsCh, closed, writerPc, closedSeen,
                   storevars, histvars, monPc, nCloses, released, pending, nObs, lastObs, obsLog>>

\* the loop reaches its select
MonEnter(l) ==
    /\ monPc[l] = "head"
    /\ ~cancelled
    /\ w[l] # 0
    /\ monPc' = [monPc EXCEPT ![l] = "select"]
    /\ UNCHANGED <<dvars, sysvars, cancelled, eventsCh, closed, writerPc, closedSeen,
                   storevars, histvars, w, gen, streamOpen, nCloses, released, pending,
                   nObs, lastObs, obsLog>>

\* the Deleted events of the listed nodes the cluster no longer has
RECURSIVE StaleDeletes(_, _)
StaleDeletes(nodes, i) ==
    IF i > Len(nodes) THEN <<>>
    ELSE (IF nodes[i] \in cluster THEN <<>>
          ELSE translationFromNode(WatchEvent(Deleted, nodes[i])))
             \o StaleDeletes(nodes, i + 1)

\* the node loop's translateFn, were it to compare each observation with the
\* startup snapshot and delete what the cluster no longer has
TranslateResync(l, e) ==
    IF l = "node"
    THEN {StaleDeletes(list, 1) \o NodeTranslateFn(publicIP, e, conf.NodeName)}
    ELSE translateFromConfigmap(e)

\* the events translateFn may give for an observation of loop l
Translate(l, e) ==
    IF l = "node" THEN {NodeTranslateFn(publicIP, e, conf.NodeName)}
    ELSE translateFromConfigmap(e)

\* case e, ok := <-w.ResultChan() with ok: events := translateFn(e)
MonRecv(l) ==
    /\ monPc[l] = "select"
    /\ streamOpen[l]
    /\ nObs["node"] + nObs["cm"] < MaxObs
    /\ \E e \in SysObservations(l) : \E events \in Translate(l, e) :
          /\ pending' = [pending EXCEPT ![l] = Tagged(events, l, nObs[l] + 1)]
          /\ monPc' = [monPc EXCEPT ![l] = IF events = <<>> THEN "head" ELSE "forward"]
          /\ lastObs' = [lastObs EXCEPT ![l] = [e |-> e, sub |-> w[l]]]
          /\ obsLog' = [obsLog EXCEPT ![l] = Append(@, e.Type)]
    /\ nObs' = [nObs EXCEPT ![l] = @ + 1]
    /\ UNCHANGED <<dvars, sysvars, cancelled, eventsCh, closed, writerPc, closedSeen,
                   storevars, histvars, w, gen, streamOpen, nCloses, released>>

\* out <- event, for the next of the derived events
MonSend(l) ==
    /\ monPc[l] = "forward"
    /\ Len(eventsCh) < ChanCap
    /\ eventsCh' = Enqueue(eventsCh, Head(pending[l]), nEnq + 1)
    /\ nEnq' = nEnq + 1
    /\ pending' = [pending EXCEPT ![l] = Tail(@)]
    /\ monPc' = [monPc EXCEPT ![l] = IF Tail(pending[l]) = <<>> THEN "head" ELSE "forward"]
    /\ UNCHANGED <<dvars, sysvars, cancelled, closed, writerPc, closedSeen, storevars,
                   expected, applied, nApplied, w, gen, streamOpen, nCloses, released,
                   nObs, lastObs, obsLog>>

\* case e, ok := <-w.ResultChan() with !ok: w.Stop(), w = getWatchFn(), continue
MonRecvClosed(l) ==
    /\ monPc[l] = "select"
    /\ ~streamOpen[l]
    /\ Stop(l)
    /\ \E new \in GetWatch(l) : Obtain(l, new)
    /\ monPc' = [monPc EXCEPT ![l] = "head"]
    /\ UNCHANGED <<dvars, sysvars, cancelled, eventsCh, closed, writerPc, closedSeen,
                   storevars, histvars, nCloses, pending, nObs, lastObs, obsLog>>

\* case <-ctx.Done(): return, and the deferred function stops w
MonDone(l) ==
    /\ monPc[l] = "select"
    /\ cancelled
    /\ Stop(l)
    /\ monPc' = [monPc EXCEPT ![l] = "done"]
    /\ UNCHANGED <<dvars, sysvars, cancelled, eventsCh, closed, writerPc, closedSeen,
                   storevars, histvars, w, gen, streamOpen, nCloses, pending, nObs, lastObs, obsLog>>

\* the source of the observations ends the stream of the subscription held;
\* the loop reads the stream in its select only, so the end of a stream is
\* taken when the loop is there
StreamClose(l) ==
    /\ w[l] # 0
    /\ streamOpen[l]
    /\ monPc[l] = "select"
    /\ nCloses < MaxCloses
    /\ streamOpen' = [streamOpen EXCEPT ![l] = FALSE]
    /\ nCloses' = nCloses + 1
    /\ UNCHANGED <<dvars, sysvars, cancelled, eventsCh, closed, writerPc, closedSeen,
                   storevars, histvars, monPc, w, gen, released, pending, nObs, lastObs, obsLog>>

\* the steps of the loop that need nothing but the loop itself to go on
MonStep(l) ==
    \/ MonInit(l)
    \/ MonExit(l)
    \/ MonRetry(l)
    \/ MonEnter(l)
    \/ MonSend(l)
    \/ MonRecvClosed(l)
    \/ MonDone(l)

(***************************************************************************)
(* The system: Start, the writer, the executor, the loops, cancellation.   *)
(***************************************************************************)
Init == SysInit

Next ==
    \/ StartSeed
    \/ StartGo
    \/ Cancel
    \/ WriterRecv
    \/ WriterReturn
    \/ ExecMutate
    \/ ExecWrite
    \/ \E l \in Loops : MonInit(l)
    \/ \E l \in Loops : MonExit(l)
    \/ \E l \in Loops : MonRetry(l)
    \/ \E l \in Loops : MonEnter(l)
    \/ \E l \in Loops : MonRecv(l)
    \/ \E l \in Loops : MonSend(l)
    \/ \E l \in Loops : MonRecvClosed(l)
    \/ \E l \in Loops : MonDone(l)
    \/ \E l \in Loops : StreamClose(l)

Spec == Init /\ [][Next]_vars

\* every goroutine that can take a step takes one: Start, the writer (its
\* select takes a ready case at random, so a case that stays ready is taken),
\* the executor and each loop
FairSpec ==
    /\ Spec
    /\ WF_vars(StartSeed \/ StartGo)
    /\ WF_vars(WriterRecv)
    /\ WF_vars(WriterReturn)
    /\ WF_vars(ExecStep)
    /\ \A l \in Loops : WF_vars(MonStep(l))

(***************************************************************************)
(* Properties of the system.                                               *)
(***************************************************************************)
\* the events whose mutation is scheduled, in the executor's order
MutatesOf(queue) ==
    LET m == SelectSeq(queue, LAMBDA t : t.op = "mutate")
    IN  [i \in 1..Len(m) |-> m[i].msg]

\* the events placed in the queue and not yet applied to the Translation Set,
\* in the order in which they are going to be applied
InFlight == MutatesOf(execQ) \o eventsCh

\* a was derived by its producer before b
Before(a, b) == a.obs < b.obs \/ (a.obs = b.obs /\ a.idx < b.idx)

\* C2: the events not yet applied are exactly those placed in the queue after
\* the ones applied, and they stand in the order of their placing, so that the
\* k-th event applied is the k-th event placed; the events of one producer
\* stand in the order in which the producer derived them, ahead of those it
\* has still to forward.
C2_AppliedInQueueOrder ==
    /\ Len(InFlight) = nEnq - nApplied
    /\ \A i \in 1..Len(InFlight) : InFlight[i].seq = nApplied + i
    /\ \A i, j \in 1..Len(InFlight) :
          (i < j /\ InFlight[i].src = InFlight[j].src) => Before(InFlight[i], InFlight[j])
    /\ \A l \in Loops : \A i \in 1..Len(InFlight) : \A k \in 1..Len(pending[l]) :
          InFlight[i].src = l => Before(InFlight[i], pending[l][k])

\* C2 happens: one event has been applied, and the node loop's Added of a
\* Translation waits to be applied ahead of its later Deleted of the same
\* Translation.
C2_Witness ==
    /\ nApplied >= 1
    /\ \E i, j \in 1..Len(InFlight) :
          /\ i < j
          /\ InFlight[i].src = "node" /\ InFlight[j].src = "node"
          /\ InFlight[i].event.Type = Added /\ InFlight[j].event.Type = Deleted
          /\ TranslationOf(InFlight[i].event) = TranslationOf(InFlight[j].event)

\* C3: the Translation Set is the result of every mutation run so far, none
\* lost; and every write of the file gives every From of that set an entry and
\* takes every entry from that set.
C3_WritesReflectMutations ==
    /\ [](internalToExternalIP = applied)
    /\ [][ExecWrite => (/\ fileExists'
                        /\ file' \subseteq applied
                        /\ \A t \in applied : \E u \in file' : u.From = t.From)]_vars

\* C3 happens: the snapshot, the node loop and the configuration loop have all
\* sent events, every one of them has been applied and the file written.
C3_Witness ==
    /\ nObs["node"] >= 1
    /\ nObs["cm"] >= 1
    /\ nEnq >= 6
    /\ nApplied = nEnq
    /\ execQ = <<>>
    /\ lastWriteOk
    /\ file = {Translation("ip1", "ip1"), Translation("ip2", "ip1")}

\* C4 as claimed needs, when the cancellation signal has fired and
\* MapIPWriter.Start has returned, that no loop waits for room in the full
\* queue: nothing is going to receive from it, so such a loop never terminates.
C4_NoLoopStuckOnFullQueue ==
    ~(/\ cancelled
      /\ writerPc = "done"
      /\ Len(eventsCh) = ChanCap
      /\ \E l \in Loops : monPc[l] = "forward")

\* nothing is left to do for the events derived so far
Quiescent ==
    /\ startPc = "started"
    /\ \A l \in Loops : pending[l] = <<>>
    /\ eventsCh = <<>>
    /\ execQ = <<>>

\* the events of observation k of loop l have been applied, and the file
\* written after them
Delivered(l, k) ==
    /\ \A i \in 1..Len(pending[l]) : pending[l][i].obs # k
    /\ \A i \in 1..Len(InFlight) : ~(InFlight[i].src = l /\ InFlight[i].obs = k)
    /\ execQ = <<>>
    /\ fileExists
    /\ file \in Outmaps(expected)

\* C5: in a run that is not cancelled, every subscription a loop obtained,
\* but the one it holds, has been stopped; the step of the loop on a closed
\* stream stops the subscription held and takes what getWatchFn returns; and
\* the events of an observation received on a subscription obtained after the
\* first are applied and the file written after them.
C5_ResubscribeAndDeliver ==
    /\ [](\A l \in Loops : released[l] = (1..gen[l]) \ {w[l]})
    /\ [][\A l \in Loops : MonRecvClosed(l) =>
              (w[l] \in released'[l] /\ w'[l] \in {0, gen[l] + 1})]_vars
    /\ \A l \in Loops : \A k \in 1..MaxObs :
          (monPc[l] = "forward" /\ w[l] >= 2 /\ nObs[l] = k) ~> Delivered(l, k)

\* C5 happens: the node loop's first subscription was closed and stopped, its
\* Added observation came on the second, and the file holds its entries.
C5_Witness ==
    /\ released["node"] = {1}
    /\ w["node"] = 2
    /\ nObs["node"] = 1
    /\ lastObs["node"] = [e |-> WatchEvent(Added, Node("node-1", <<SysExternal, SysInternal>>)),
                          sub |-> 2]
    /\ Delivered("node", 1)
    /\ file = {Translation("ip1", "ip1"), Translation("ip2", "ip1")}

\* C9 as claimed: when nothing but one Added observation of the node with the
\* external address ip1 and the internal address ip2 has come, and nothing is
\* left to do for it, the file holds ip1: ip2 and ip2: ip1.
C9_FileHasBothDirections ==
    (/\ conf.FromConfigMap = ""
     /\ list = <<>>
     /\ nObs["node"] = 1
     /\ lastObs["node"].e = WatchEvent(Added, Node("node-1", <<SysExternal, SysInternal>>))
     /\ Quiescent
     /\ fileExists)
        => (Translation("ip1", "ip2") \in file /\ Translation("ip2", "ip1") \in file)

\* the runs in which the cancellation signal does not fire: the steps that
\* need it (WriterReturn, MonExit, MonDone) are never enabled in them
RunNext ==
    \/ StartSeed
    \/ StartGo
    \/ WriterRecv
    \/ ExecMutate
    \/ ExecWrite
    \/ \E l \in Loops : MonInit(l)
    \/ \E l \in Loops : MonRetry(l)
    \/ \E l \in Loops : MonEnter(l)
    \/ \E l \in Loops : MonRecv(l)
    \/ \E l \in Loops : MonSend(l)
    \/ \E l \in Loops : MonRecvClosed(l)
    \/ \E l \in Loops : StreamClose(l)

RunSpec == Init /\ [][RunNext]_vars

FairRunSpec ==
    /\ RunSpec
    /\ WF_vars(StartSeed \/ StartGo)
    /\ WF_vars(WriterRecv)
    /\ WF_vars(ExecStep)
    /\ \A l \in Loops : WF_vars(MonStep(l))

\* the runs without a configuration source, as in Test_NodeHasChanged: the
\* node loop is the only loop
NodeInit == SysInit /\ conf.FromConfigMap = ""

\* with the cancellation signal
NodeSpec == NodeInit /\ [][Next]_vars

\* without it
NodeRunSpec == NodeInit /\ [][RunNext]_vars

FairNodeRunSpec ==
    /\ NodeRunSpec
    /\ WF_vars(StartSeed \/ StartGo)
    /\ WF_vars(WriterRecv)
    /\ WF_vars(ExecStep)
    /\ \A l \in Loops : WF_vars(MonStep(l))

(***************************************************************************)
(* The pair specification: MapIPWriter.Start is sent an Added event and    *)
(* then the Deleted event of the same Translation, as Test_MapWriter ends; *)
(* writes may fail.                                                        *)
(***************************************************************************)
\* the Translations sent so far
SentTranslations == {TranslationOf(InFlight[i].event) : i \in 1..Len(InFlight)} \cup applied

\* eventCh <- Added(t) first, eventCh <- Deleted(t) second
CallerSendPair ==
    /\ nEnq < 2
    /\ Len(eventsCh) < ChanCap
    /\ \E event \in WriterEvents :
          /\ nEnq = 0 => event.Type = Added
          /\ nEnq = 1 => (event.Type = Deleted /\ TranslationOf(event) \in SentTranslations)
          /\ eventsCh' = Append(eventsCh, Msg(event, "caller", 0, nEnq + 1, nEnq + 1))
    /\ nEnq' = nEnq + 1
    /\ UNCHANGED <<dvars, sysvars, monvars, cancelled, closed, writerPc, closedSeen,
                   storevars, expected, applied, nApplied>>

PairNext ==
    \/ CallerSendPair
    \/ CallerClose
    \/ Cancel
    \/ WriterRecv
    \/ WriterRecvClosed
    \/ WriterReturn
    \/ ExecMutate
    \/ ExecWrite
    \/ ExecWriteFail

PairSpec == WriterInit /\ [][PairNext]_vars

\* C12: when the mutations of Added(t) and of Deleted(t) have run, the
\* Translation Set is empty; and when nothing is left to run and the last
\* write succeeded, the file exists and holds the empty table.
C12_DeleteUndoesAdd ==
    nApplied = 2 =>
        /\ internalToExternalIP = {}
        /\ (execQ = <<>> /\ lastWriteOk) => (fileExists /\ file = {})

\* C12 happens: both mutations and both writes have run, no write failed.
C12_Witness ==
    /\ nApplied = 2
    /\ execQ = <<>>
    /\ nFail = 0
    /\ lastWriteOk
    /\ internalToExternalIP = {}
    /\ fileExists
    /\ file = {}

(***************************************************************************)
(* The node life specification: the system without a configuration source, *)
(* in which the node subscription delivers observations of one node that   *)
(* has an internal address only, and another node may have been listed at  *)
(* startup.                                                                *)
(***************************************************************************)
\* the nodes with the internal address ip2 only
LifeNodes ==
    {Node("node-1", a) : a \in {<<SysInternal>>,
                                <<NodeAddress(NodeHostName, "ip3"), SysInternal>>}}

\* the other node: its internal address is ip1
LifeLists == {<<>>, <<Node("node-2", <<NodeAddress(NodeInternalIP, "ip1")>>)>>}

LifeInit ==
    /\ DeriveOff
    /\ StoreInit
    /\ writerPc = "idle"
    /\ MonOff
    /\ conf \in {[FromConfigMap |-> "", NodeName |-> n] : n \in {"", "node-1"}}
    /\ publicIP \in {"ip3"}
    /\ \E n \in LifeNodes : cluster = {n}
    /\ list \in LifeLists
    /\ startPc = "seed"
    /\ seedQ = SeedOfNodes(list, 1)

NodeLifeSpec == LifeInit /\ [][RunNext]_vars

\* the kinds of the last two observations the node loop received
LastKinds(log) == IF Len(log) < 2 THEN <<>> ELSE <<log[Len(log) - 1], log[Len(log)]>>

\* C13: for the node with the internal address I only, whenever nothing is
\* left to do: after an Added observation of it the file holds I: I; after an
\* Added and then a Deleted observation of it the file holds no entry for I;
\* and the entry of the other node, listed at startup, is in the file.
C13_AddedThenDeleted ==
    Quiescent =>
        \A n \in cluster :
            LET I == InternalsOf(WatchEvent(Added, n))[1].Address
                log == obsLog["node"]
            IN  /\ (log # <<>> /\ log[Len(log)] = Added) => Translation(I, I) \in file
                /\ LastKinds(log) = <<Added, Deleted>> => \A t \in file : t.From # I
                /\ \A i \in 1..Len(list) :
                      \A j \in 1..Len(list[i].Addresses) :
                          Translation(list[i].Addresses[j].Address,
                                      list[i].Addresses[j].Address) \in file

\* C13 happens: the other node was listed, the node was added and then
\* deleted, and the file holds the other node's entry only.
C13_Witness ==
    /\ Quiescent
    /\ list # <<>>
    /\ conf.NodeName = ""
    /\ obsLog["node"] = <<Added, Deleted>>
    /\ file = {Translation("ip1", "ip1")}

(***************************************************************************)
(* The configuration specification: one observation of a configuration     *)
(* record drawn from the bounded set, one application of                   *)
(* translateFromConfigmap.                                                 *)
(***************************************************************************)
\* the flat tables a text may parse as: at most one value per key
FlatTables ==
    {m \in SUBSET {Translation(f, t) : f \in WriterIPs, t \in WriterIPs} :
        \A t \in m, u \in m : t.From = u.From => t = u}

\* the data items of one key: malformed text, or text that parses as a table
DataItemsOf(key) ==
    {DataItem(key, TRUE, {})} \cup {DataItem(key, FALSE, m) : m \in FlatTables}

CmKeys == {"config.yaml", "other.yaml"}

\* the Data maps: one item per key present
CmDatas ==
    {d \in SUBSET UNION {DataItemsOf(k) : k \in CmKeys} :
        \A x \in d, y \in d : x.key = y.key => x = y}

CmObservations == {WatchEvent(t, ConfigMap("test", d)) : t \in EventTypes, d \in CmDatas}

ConfigInit ==
    /\ dPc = "input"
    /\ dIn \in CmObservations
    /\ dOut = <<>>
    /\ StoreInit
    /\ writerPc = "idle"
    /\ SysOff
    /\ MonOff

\* translateFromConfigmap(e), in one of the orders the maps may be ranged in
DeriveConfig ==
    /\ dPc = "input"
    /\ dOut' \in translateFromConfigmap(dIn)
    /\ dPc' = "done"
    /\ UNCHANGED <<dIn, sysvars, monvars, cancelled, eventsCh, closed, writerPc,
                   closedSeen, storevars, histvars>>

ConfigNext == DeriveConfig

ConfigSpec == ConfigInit /\ [][ConfigNext]_vars

\* the data items of the observation whose text parses
ParsedItems(e) == {x \in e.Object.Data : ~x.malformed}

\* the number of places of the sequence out that hold the event ev
Occurrences(out, ev) == Cardinality({j \in 1..Len(out) : out[j] = ev})

\* C14: every event derived from a configuration-record observation has the
\* observation's kind, and the events key -> value occur exactly as often as
\* there are data items of parsed text that hold the entry key: value, so
\* that a malformed item adds nothing and takes nothing away.
C14_OneEventPerEntry ==
    dPc = "done" =>
        /\ \A j \in 1..Len(dOut) : dOut[j].Type = dIn.Type
        /\ \A f \in WriterIPs, t \in WriterIPs :
              Occurrences(dOut, Event(dIn.Type, f, t)) =
                  Cardinality({x \in ParsedItems(dIn) : Translation(f, t) \in x.table})
        /\ \A j \in 1..Len(dOut) : dOut[j].From \in WriterIPs /\ dOut[j].To \in WriterIPs

\* C14 happens: a Deleted observation with one malformed item and one item of
\* two entries has been derived into two events.
C14_Witness ==
    /\ dPc = "done"
    /\ dIn.Type = Deleted
    /\ dIn.Object.Data =
          {DataItem("config.yaml", TRUE, {}),
           DataItem("other.yaml", FALSE,
                    {Translation("ip1", "ip2"), Translation("ip2", "ip1")})}
    /\ Len(dOut) = 2

(***************************************************************************)
(* The configuration source specification: the system with a               *)
(* configuration source and no node, as in Test_ConfigMapLoadedFromStart   *)
(* (the record is found at startup) and Test_ConfigMapHasChanged (it is    *)
(* delivered by the subscription).                                         *)
(***************************************************************************)
CmInit ==
    /\ DeriveOff
    /\ StoreInit
    /\ writerPc = "idle"
    /\ MonOff
    /\ conf = [FromConfigMap |-> "test", NodeName |-> ""]
    /\ publicIP \in {"ip3"}
    /\ cluster = {}
    /\ list = <<>>
    /\ startPc = "seed"
    /\ \E found \in BOOLEAN, cmEvents \in translateFromConfigmap(WatchEvent(Added, CmTest)) :
          seedQ = IF found THEN Tagged(cmEvents, "seed", 0) ELSE <<>>

CmSpec == CmInit /\ [][RunNext]_vars

FairCmSpec ==
    /\ CmSpec
    /\ WF_vars(StartSeed \/ StartGo)
    /\ WF_vars(WriterRecv)
    /\ WF_vars(ExecStep)
    /\ \A l \in Loops : WF_vars(MonStep(l))

\* the entries of the configuration record
CmEntries == UNION {x.table : x \in CmTest.Data}

\* the file holds every entry of the configuration record
CmEntriesInFile == fileExists /\ CmEntries \subseteq file

C18_SeedsBeforeLoops ==
    /\ [](\A l \in Loops : monPc[l] # "idle" => (seedQ = <<>> /\ startPc = "started"))
    /\ [](seedQ # <<>> =>
             (/\ \A i \in 1..Len(InFlight) : InFlight[i].src = "seed"
              /\ \A l \in Loops : pending[l] = <<>> /\ nObs[l] = 0))
    /\ [](\A i, j \in 1..Len(InFlight) :
             (i < j /\ InFlight[j].src = "seed") => InFlight[i].src = "seed")
    /\ [][(nApplied' > nApplied /\ InFlight[1].src # "seed") =>
              (seedQ = <<>> /\ \A i \in 1..Len(InFlight) : InFlight[i].src # "seed")]_vars

\* C18 happens: one event of the snapshot has been applied, the other is the
\* next to be applied, and an event of the node loop waits behind it.
C18_Witness ==
    /\ nApplied = 1
    /\ Len(InFlight) >= 2
    /\ InFlight[1].src = "seed"
    /\ InFlight[2].src = "node"

(***************************************************************************)
(* Who touches the Translation Set.                                        *)
(***************************************************************************)
\* C20: the Translation Set changes only in a step that runs the mutation
\* at the head of the executor's queue, which mutates once and schedules the
\* persist; the file is written only in a step that runs the persist at the
\* head of the queue, from the set as it stands and without changing it; and
\* a step of Start's seeding or of a loop changes nothing of the Store: it
\* only sends on the event queue.
C20_SetOnlyInExecutorTasks ==
    /\ [][internalToExternalIP' # internalToExternalIP =>
              (/\ execQ # <<>>
               /\ Head(execQ).op = "mutate"
               /\ internalToExternalIP' = ApplyEvent(internalToExternalIP, Head(execQ).msg.event)
               /\ execQ' = Append(Tail(execQ), WriteTask)
               /\ nApplied' = nApplied + 1
               /\ UNCHANGED <<file, fileExists, lastWriteOk, eventsCh>>)]_vars
    /\ [][(file' # file \/ fileExists' # fileExists \/ lastWriteOk' # lastWriteOk) =>
              (/\ execQ # <<>>
               /\ Head(execQ).op = "write"
               /\ file' \in Outmaps(internalToExternalIP)
               /\ execQ' = Tail(execQ)
               /\ UNCHANGED <<internalToExternalIP, nApplied, eventsCh>>)]_vars
    /\ [][(nEnq' # nEnq \/ monvars' # monvars \/ sysvars' # sysvars) =>
              (UNCHANGED storevars /\ UNCHANGED <<applied, nApplied>>)]_vars

\* C20 happens: a persist is the next task while a mutation is scheduled
\* behind it, an event of each loop is in flight and a loop has one more to send.
C20_Witness ==
    /\ Len(execQ) >= 2
    /\ execQ[1].op = "write"
    /\ execQ[2].op = "mutate"
    /\ \E i \in 1..Len(InFlight) : InFlight[i].src = "node"
    /\ \E i \in 1..Len(InFlight) : InFlight[i].src = "cm"
    /\ \E l \in Loops : pending[l] # <<>>

(***************************************************************************)
(* The loop without a subscription.                                        *)
(***************************************************************************)
\* the node loop alone, with the cancellation signal, every goroutine that
\* can take a step taking one
FairNodeSpec ==
    /\ NodeSpec
    /\ WF_vars(StartSeed \/ StartGo)
    /\ WF_vars(WriterRecv)
    /\ WF_vars(WriterReturn)
    /\ WF_vars(ExecStep)
    /\ \A l \in Loops : WF_vars(MonStep(l))

\* loop l is started and holds no subscription
Subscribing(l) == monPc[l] \in {"head", "select", "forward"} /\ w[l] = 0

\* C21: a started loop that holds no subscription is at the head of its for
\* loop with nothing to forward; as long as the cancellation signal has not
\* fired, a step taken there leaves the loop at the head, sends nothing, and
\* either leaves it without a subscription or gives it a new one whose stream
\* is open; a loop ends only after the signal fired; and a loop that holds a
\* subscription at the head of the for loop comes to its select, unless the
\* signal fires.
C21_RetriesUntilSubscribed ==
    /\ [](\A l \in Loops : Subscribing(l) => (monPc[l] = "head" /\ pending[l] = <<>>))
    /\ [][\A l \in Loops :
              (Subscribing(l) /\ ~cancelled /\ ~cancelled') =>
                  (/\ monPc'[l] = "head"
                   /\ pending'[l] = <<>>
                   /\ nObs'[l] = nObs[l]
                   /\ released'[l] = released[l]
                   /\ w'[l] \in {0, gen[l] + 1}
                   /\ w'[l] # 0 => streamOpen'[l]
                   /\ (monvars' # monvars) => UNCHANGED <<eventsCh, nEnq>>)]_vars
    /\ [](\A l \in Loops : monPc[l] = "done" => cancelled)
    /\ \A l \in Loops :
          (monPc[l] = "head" /\ w[l] # 0) ~> (monPc[l] = "select" \/ cancelled)

\* C21 happens: the node loop's first subscription was closed and stopped,
\* getWatchFn then gave nothing, and the loop waits to retry.
C21_Witness ==
    /\ Subscribing("node")
    /\ ~cancelled
    /\ released["node"] = {1}
    /\ gen["node"] = 1
    /\ nObs["node"] >= 1

(***************************************************************************)
(* Several internal addresses.                                             *)
(***************************************************************************)
\* C22 as claimed: a node observation with no external address and n >= 1
\* internal addresses yields exactly n events, the j-th of them the self-loop
\* I -> I of the j-th internal address, with the observation's change kind.
C22_SelfLoopPerInternal ==
    (dPc = "done" /\ Len(ExternalsOf(dIn)) = 0 /\ Len(InternalsOf(dIn)) >= 1) =>
        dOut = [j \in 1..Len(InternalsOf(dIn)) |->
                    Event(dIn.Type, InternalsOf(dIn)[j].Address, InternalsOf(dIn)[j].Address)]

(***************************************************************************)
(* The kind specification: MapIPWriter.Start is sent events of every kind  *)
(* a watch may carry, the same event twice included.                       *)
(***************************************************************************)
Bookmark == "BOOKMARK"

Error == "ERROR"

\* every watch.EventType
AllKinds == EventTypes \cup {Bookmark, Error}

KindEvents == {Event(t, f, "ip2") : t \in AllKinds, f \in WriterIPs}

\* eventCh <- event, of any kind
CallerSendKind ==
    /\ ~closed
    /\ nEnq < MaxKindSend
    /\ Len(eventsCh) < ChanCap
    /\ \E event \in KindEvents :
          eventsCh' = Append(eventsCh, Msg(event, "caller", 0, nEnq + 1, nEnq + 1))
    /\ nEnq' = nEnq + 1
    /\ UNCHANGED <<dvars, sysvars, monvars, cancelled, closed, writerPc, closedSeen,
                   storevars, expected, applied, nApplied>>

KindNext ==
    \/ CallerSendKind
    \/ CallerClose
    \/ Cancel
    \/ WriterRecv
    \/ WriterRecvClosed
    \/ WriterReturn
    \/ ExecMutate
    \/ ExecWrite
    \/ ExecWriteFail

KindSpec == WriterInit /\ [][KindNext]_vars

\* C23: the mutation of an event whose kind is not Deleted, whatever the
\* kind, leaves the Translation Set with the event's Translation added and
\* nothing else changed, so that it changes nothing when the Translation is
\* in the set already; and the mutation of a Deleted event whose Translation
\* is not in the set changes nothing.
C23_UpsertIdempotent ==
    [][nApplied' > nApplied =>
          LET ev == Head(execQ).msg.event
              t == Translation(ev.From, ev.To)
          IN  /\ ev.Type # Deleted => internalToExternalIP' = internalToExternalIP \cup {t}
              /\ (ev.Type # Deleted /\ t \in internalToExternalIP) =>
                     internalToExternalIP' = internalToExternalIP
              /\ (ev.Type = Deleted /\ t \notin internalToExternalIP) =>
                     internalToExternalIP' = internalToExternalIP]_vars

\* C23 happens: a Modified event was applied, and the same Translation is
\* about to be applied again by a Bookmark event.
C23_Witness ==
    /\ nApplied = 1
    /\ internalToExternalIP = {Translation("ip1", "ip2")}
    /\ Len(execQ) >= 1
    /\ Head(execQ) = MutateTask(Msg(Event(Bookmark, "ip1", "ip2"), "caller", 0, 2, 2))

(***************************************************************************)
(* The persisted map as a projection of the Translation Set.               *)
(***************************************************************************)
\* no two members of the set share a From
NoSharedFrom(set) == \A t \in set, u \in set : t.From = u.From => t = u

\* C24: every write of the file that succeeds leaves a table that has, for
\* each From of the Translation Set as it is at the write, exactly one entry,
\* whose To is the To of a member of the set with that From, and no entry for
\* any other key; when no two members share a From the table is the set.
C24_FileIsProjection ==
    [][(/\ execQ # <<>>
        /\ Head(execQ).op = "write"
        /\ execQ' = Tail(execQ)
        /\ nFail' = nFail) =>
          (/\ fileExists'
           /\ lastWriteOk'
           /\ {t.From : t \in file'} = {t.From : t \in internalToExternalIP}
           /\ \A t \in file', u \in file' : t.From = u.From => t = u
           /\ file' \subseteq internalToExternalIP
           /\ NoSharedFrom(internalToExternalIP) => file' = internalToExternalIP)]_vars

\* C24 happens: the set holds ip1 -> ip1, ip1 -> ip2 and ip2 -> ip1, and the
\* file written from it holds ip1: ip2 and ip2: ip1.
C24_Witness ==
    /\ internalToExternalIP = {Translation("ip1", "ip1"), Translation("ip1", "ip2"),
                               Translation("ip2", "ip1")}
    /\ execQ = <<>>
    /\ lastWriteOk
    /\ file = {Translation("ip1", "ip2"), Translation("ip2", "ip1")}

(***************************************************************************)
(* What a mutation leaves alone.                                           *)
(***************************************************************************)
\* every Translation the writer specification can hold
WriterTranslations == {Translation(f, to) : f \in WriterIPs, to \in WriterIPs}

\* C25: the mutation of an event for (A, B) changes the membership of no
\* other Translation, the reverse (B, A) and every (A, C) included: a
\* Deleted event leaves (A, B) out of the set and an event of any other kind
\* leaves it in.
C25_MutationTouchesOneMember ==
    [][nApplied' > nApplied =>
          LET ev == Head(execQ).msg.event
              t == Translation(ev.From, ev.To)
          IN  /\ \A u \in WriterTranslations \ {t} :
                    (u \in internalToExternalIP') <=> (u \in internalToExternalIP)
              /\ internalToExternalIP' \subseteq WriterTranslations
              /\ (t \in internalToExternalIP') <=> (ev.Type # Deleted)]_vars

\* C25 happens: the file was written when the set held ip1 -> ip2 and its
\* reverse; the Deleted event of ip1 -> ip2 has been applied since, and the
\* reverse is still in the set.
C25_Witness ==
    /\ nApplied = 3
    /\ lastWriteOk
    /\ file = {Translation("ip1", "ip2"), Translation("ip2", "ip1")}
    /\ internalToExternalIP = {Translation("ip2", "ip1")}
    /\ execQ = <<WriteTask>>

(***************************************************************************)
(* A listed node the subscription never reports.                           *)
(***************************************************************************)
\* the Translations seeded for the listed nodes
SeededTranslations ==
    {TranslationOf(SeedOfNodes(list, 1)[i].event) : i \in 1..Len(SeedOfNodes(list, 1))}

\* C26: when a listed node is not among the nodes the subscription reports,
\* and no other node has its addresses, the Translations seeded for it are
\* in the Translation Set from the first mutation on and in the file from
\* the first write on, whatever the subscription delivers; no step takes
\* them out again.
C26_StaleSeedStays ==
    /\ [](nApplied >= 1 => SeededTranslations \subseteq internalToExternalIP)
    /\ [](fileExists => SeededTranslations \subseteq file)
    /\ [][\A t \in SeededTranslations :
              /\ t \in internalToExternalIP => t \in internalToExternalIP'
              /\ t \in file => t \in file']_vars
    /\ [](\A i \in 1..Len(list) : list[i] \notin cluster)

\* C26 happens: node-2 was listed and is not reported; the subscription
\* delivered a Deleted observation of node-1 last; everything was applied and
\* node-2's entry is still in the set and in the file.
C26_Witness ==
    /\ list # <<>>
    /\ nObs["node"] = 2
    /\ lastObs["node"].e.Type = Deleted
    /\ Quiescent
    /\ Translation("ip1", "ip1") \in internalToExternalIP
    /\ Translation("ip1", "ip1") \in file

(***************************************************************************)
(* The startup snapshot and the capacity of the queue.                     *)
(***************************************************************************)
\* C27 as claimed: Start is never left with an event of the snapshot to send,
\* the queue full and nothing started that receives from it.
C27_SeedingNeverBlocks ==
    ~(/\ startPc = "seed"
      /\ seedQ # <<>>
      /\ Len(eventsCh) = ChanCap
      /\ writerPc = "idle"
      /\ \A l \in Loops : monPc[l] = "idle")

(***************************************************************************)
(* The subscriptions of a loop.                                            *)
(***************************************************************************)
\* the subscriptions loop l obtained and has not stopped
Unreleased(l) == (1..gen[l]) \ released[l]

\* C28: of the subscriptions a loop obtained, none but the one it holds is
\* not stopped; the loop reads and forwards only on a subscription it has
\* not stopped; the step that takes a new subscription after the stream
\* closed stops the one held; and when the loop has ended, every
\* subscription it obtained is stopped.
C28_NoSubscriptionLeaked ==
    /\ [](\A l \in Loops : Unreleased(l) \subseteq {w[l]} /\ Cardinality(Unreleased(l)) <= 1)
    /\ [](\A l \in Loops : monPc[l] \in {"select", "forward"} => w[l] \in Unreleased(l))
    /\ [][\A l \in Loops : (w[l] # 0 /\ w'[l] # w[l]) => w[l] \in released'[l]]_vars
    /\ [](\A l \in Loops : monPc[l] = "done" => Unreleased(l) = {})

\* C28 happens: the node loop obtained two subscriptions, the first closed,
\* and it has ended with both stopped.
C28_Witness ==
    /\ monPc["node"] = "done"
    /\ gen["node"] = 2
    /\ w["node"] = 2
    /\ released["node"] = {1, 2}

(***************************************************************************)
(* The node change specification: the system without a configuration       *)
(* source, in which the node subscription delivers observations of one     *)
(* node whose addresses change: the internal address ip2 only, or ip2 and  *)
(* the external address ip1.                                               *)
(***************************************************************************)
ChangeNodes == {Node("node-1", <<SysInternal>>), Node("node-1", <<SysInternal, SysExternal>>)}

\* the other node: its internal address is ip3
ChangeLists == {<<>>, <<Node("node-2", <<NodeAddress(NodeInternalIP, "ip3")>>)>>}

ChangeInit ==
    /\ DeriveOff
    /\ StoreInit
    /\ writerPc = "idle"
    /\ MonOff
    /\ conf = [FromConfigMap |-> "", NodeName |-> ""]
    /\ publicIP \in {"ip3"}
    /\ cluster = ChangeNodes
    /\ list \in ChangeLists
    /\ startPc = "seed"
    /\ seedQ = SeedOfNodes(list, 1)

NodeChangeSpec == ChangeInit /\ [][RunNext]_vars

\* the Translations derived from the observation e
DerivedFrom(e) ==
    {TranslationOf(translationFromNode(e)[j]) : j \in 1..Len(translationFromNode(e))}

\* C29 as claimed: when the node loop has received upsert observations only
\* and nothing is left to do, every Translation in the set is derived from
\* the latest observation (or seeded for the other node), and the file's
\* entry for each internal address of the node is the one derived from the
\* latest observation.
C29_NoStaleAfterUpdate ==
    (/\ Quiescent
     /\ fileExists
     /\ nObs["node"] = 2
     /\ obsLog["node"] = <<Added, Added>>) =>
        /\ internalToExternalIP \subseteq DerivedFrom(lastObs["node"].e) \cup SeededTranslations
        /\ \A t \in file :
              (\E j \in 1..Len(InternalsOf(lastObs["node"].e)) :
                   InternalsOf(lastObs["node"].e)[j].Address = t.From)
                  => t \in DerivedFrom(lastObs["node"].e)

(***************************************************************************)
(* The shared address specification: the system without a configuration    *)
(* source, with two nodes that carry the same external address ip1:        *)
(* node-2 is listed at startup and no observation of it is delivered,      *)
(* node-1 is reported by the node subscription.                            *)
(***************************************************************************)
SharedReported == Node("node-1", <<SysInternal, SysExternal>>)

SharedListed == Node("node-2", <<NodeAddress(NodeInternalIP, "ip3"), SysExternal>>)

SharedInit ==
    /\ DeriveOff
    /\ StoreInit
    /\ writerPc = "idle"
    /\ MonOff
    /\ conf = [FromConfigMap |-> "", NodeName |-> ""]
    /\ publicIP \in {"ip3"}
    /\ cluster = {SharedReported}
    /\ list = <<SharedListed>>
    /\ startPc = "seed"
    /\ seedQ = SeedOfNodes(list, 1)

SharedSpec == SharedInit /\ [][RunNext]_vars

\* the Translations both nodes derive
SharedTranslations ==
    DerivedFrom(WatchEvent(Added, SharedReported)) \cap DerivedFrom(WatchEvent(Added, SharedListed))

\* C30 as claimed: once the events seeded for the listed node are applied,
\* the Translation it shares with the reported node stays in the Translation
\* Set, and in the file whenever nothing is left to run, whatever is
\* delivered for the reported node: the listed node is never deleted.
C30_SharedSurvivesDelete ==
    nApplied >= Len(SeedOfNodes(list, 1)) =>
        /\ SharedTranslations \subseteq internalToExternalIP
        /\ (execQ = <<>> /\ fileExists) => SharedTranslations \subseteq file

(***************************************************************************)
(* The entry of the process's own address.                                 *)
(***************************************************************************)
\* C31 as claimed: when the node the process runs on was observed Added and
\* then Deleted, and nothing is left to do, the Translation Set holds no
\* Translation from the process's own address.
C31_PodEntryRemoved ==
    (/\ Quiescent
     /\ conf.NodeName = "node-1"
     /\ obsLog["node"] = <<Added, Deleted>>) =>
        \A t \in internalToExternalIP : t.From # publicIP

\* C32 as claimed: for an observation, not Deleted, of the node the process
\* runs on, with internal and external addresses, the To of the event from
\* the process's own address is the To of every internal-address event of
\* the same observation.
C32_PodToMatchesNodeTo ==
    (/\ dPc = "watched"
     /\ dIn.Object.Name = conf.NodeName
     /\ dIn.Type # Deleted
     /\ Len(InternalsOf(dIn)) >= 1
     /\ Len(ExternalsOf(dIn)) >= 1) =>
        \A j \in 1..Len(InternalsOf(dIn)) : dOut[j].To = dOut[Len(dOut)].To

(***************************************************************************)
(* The error specification: the node loop alone, without cancellation,     *)
(* whose subscription may also deliver an error notification: an           *)
(* observation of kind Error whose payload is a status, not a node.  A     *)
(* panic in a goroutine ends the process: nothing runs after it.           *)
(***************************************************************************)
\* the payload of an error notification
Status == [Kind |-> "Status"]

IsNode(object) == DOMAIN object = {"Name", "Addresses"}

IsConfigMap(object) == DOMAIN object = {"Name", "Data"}

\* e.Object.(*corev1.Node) in translationFromNode, e.Object.(*corev1.ConfigMap)
\* in translateFromConfigmap: a type assertion with one result panics when
\* the payload is of another type
Panics(l, e) == IF l = "node" THEN ~IsNode(e.Object) ELSE ~IsConfigMap(e.Object)

ErrorObservations == {WatchEvent(Error, Status)}

\* the process has ended with a panic
Crashed == \E l \in Loops : monPc[l] = "panic"

\* case e, ok := <-w.ResultChan() with ok, e an error notification:
\* translateFn(e) panics
MonRecvPanic(l) ==
    /\ monPc[l] = "select"
    /\ streamOpen[l]
    /\ nObs["node"] + nObs["cm"] < MaxObs
    /\ \E e \in ErrorObservations :
          /\ Panics(l, e)
          /\ lastObs' = [lastObs EXCEPT ![l] = [e |-> e, sub |-> w[l]]]
          /\ obsLog' = [obsLog EXCEPT ![l] = Append(@, e.Type)]
    /\ monPc' = [monPc EXCEPT ![l] = "panic"]
    /\ nObs' = [nObs EXCEPT ![l] = @ + 1]
    /\ UNCHANGED <<dvars, sysvars, cancelled, eventsCh, closed, writerPc, closedSeen,
                   storevars, histvars, w, gen, streamOpen, nCloses, released, pending>>

ErrorNext ==
    \/ ~Crashed /\ RunNext
    \/ ~Crashed /\ \E l \in Loops : MonRecvPanic(l)

ErrorSpec == NodeInit /\ [][ErrorNext]_vars

\* C33 as claimed: whatever a subscription delivers, no loop ends in a panic.
C33_NoObservationCrashes == \A l \in Loops : monPc[l] # "panic"

====
